---- MODULE Spec2Model ----
(***************************************************************************)
(* A model of the cherry OpenFlow controller core:                         *)
(*   - the forwarding action (openflow.BaseAction);                        *)
(*   - the discovery processor (northbound/app/discovery/discovery.go):    *)
(*     the canceller table, the per-device ARP sender goroutines and the   *)
(*     event handlers;                                                     *)
(*   - the OpenFlow 1.0 message parser (of10.ParseMessage).                *)
(* External collaborators (the database, the devices, the next processor   *)
(* of the chain) are modelled by the calls made to them, recorded in a     *)
(* log, and by the results they return, chosen nondeterministically.       *)
(***************************************************************************)
EXTENDS Integers, Sequences, FiniteSets, TLC

VARIABLES
    canceller,  \* processor.canceller: device id -> cancel handle (task index)
    tasks,      \* the ARP sender goroutines started so far, in start order
    th,         \* the handler invocations in progress, one per caller
    ups,        \* the device ids whose last device event handled was DeviceUp
    done,       \* the handler call that returned in the step just taken, if any
    pass,       \* the periodic probe pass run in the step just taken, if any
    pkt,        \* the frame delivered to OnPacketIn and not yet handled, if any
    pm,         \* the parser: the buffer presented and ParseMessage's result
    act         \* an openflow.BaseAction and the calls made on it so far

vars == <<canceller, tasks, th, ups, done, pass, pkt, pm, act>>

(***************************************************************************)
(* Bounds of the model.                                                    *)
(***************************************************************************)
MaxTasks == 3       \* goroutines started in one behaviour
NumCallers == 2     \* handler invocations that may overlap
MaxHosts == 2       \* hosts returned by one GetUndiscoveredHosts call

Callers == 1..NumCallers

(***************************************************************************)
(* Device identifiers are strings; a string is a sequence of characters.   *)
(***************************************************************************)
Digits == <<"0", "1", "2", "3", "4", "5", "6", "7", "8", "9">>

IsDigit(c) == \E i \in 1..10 : Digits[i] = c

DigitVal(c) == (CHOOSE i \in 1..10 : Digits[i] = c) - 1

\* 2^64 - 1 and 2^64 in decimal.
MaxUint64Str ==
    <<"1","8","4","4","6","7","4","4","0","7","3","7","0","9","5","5","1","6","1","5">>

TwoTo64Str ==
    <<"1","8","4","4","6","7","4","4","0","7","3","7","0","9","5","5","1","6","1","6">>

\* The ids of the devices that come up and go down.
DeviceIDs == { <<"7">>, <<"s", "7">> }

\* The ids of the devices of port events, and of packet events.
PortDeviceIDs == DeviceIDs \cup { <<"0", "4", "2">>, TwoTo64Str }

PacketDeviceIDs == PortDeviceIDs \cup { MaxUint64Str, <<>> }

\* The device id of the events that callers deliver concurrently.
RaceIDs == { <<"7">> }

RECURSIVE StripZeros(_)
StripZeros(s) ==
    IF Len(s) > 1 /\ Head(s) = "0" THEN StripZeros(Tail(s)) ELSE s

\* a <= b for two digit strings of the same length.
RECURSIVE DigitsLeq(_, _)
DigitsLeq(a, b) ==
    IF a = <<>> THEN TRUE
    ELSE IF DigitVal(Head(a)) # DigitVal(Head(b))
         THEN DigitVal(Head(a)) < DigitVal(Head(b))
         ELSE DigitsLeq(Tail(a), Tail(b))

\* strconv.ParseUint(s, 10, 64).  The value is a uint64: it is kept as its
\* canonical decimal digits, since it may exceed the checker's integers.
ParseUint(s) ==
    IF s = <<>> \/ \E i \in 1..Len(s) : ~IsDigit(s[i])
    THEN [ok |-> FALSE, val |-> <<>>]
    ELSE LET n == StripZeros(s) IN
         IF Len(n) > 20 \/ (Len(n) = 20 /\ ~DigitsLeq(n, MaxUint64Str))
         THEN [ok |-> FALSE, val |-> <<>>]
         ELSE [ok |-> TRUE, val |-> n]

\* uint16(n) of an unsigned integer.
Uint16(n) == n % 65536

PortNumbers == {1, 65537}

(***************************************************************************)
(* Addresses.                                                              *)
(***************************************************************************)
myMAC == <<6, 255, 41, 52, 130, 135>>

hostMAC == <<2, 0, 0, 0, 0, 1>>

IPs == <<<<10, 0, 0, 1>>, <<10, 0, 0, 2>>, <<10, 0, 0, 3>>>>

\* The lists GetUndiscoveredHosts may return: the first n addresses.
HostLists == { SubSeq(IPs, 1, n) : n \in 0..MaxHosts }

(***************************************************************************)
(* A call made to a collaborator, with the result it returned.             *)
(***************************************************************************)
Call(fn, args, res) == [fn |-> fn, args |-> args, res |-> res]

Calls(log, fn) == { i \in 1..Len(log) : log[i].fn = fn }

NoCall ==
    [op |-> "none", dev |-> <<>>, port |-> 0, prev |-> FALSE, in |-> <<>>,
     log |-> <<>>, ret |-> "nil"]

NoPass == [task |-> 0, log |-> <<>>, err |-> "nil"]

Idle == [pc |-> "idle", dev |-> <<>>]

Errs == {"nil", "error"}

\* What a reset of host locations and the next processor may return: the
\* next processor is not called after a database error.
ResetEnvs ==
    { [dbErr |-> "nil", nextErr |-> x] : x \in Errs }
        \cup { [dbErr |-> "db error", nextErr |-> "nil"] }

(***************************************************************************)
(* processor.removeARPSender: under the mutex, cancel and delete the entry *)
(* of deviceID, if there is one.                                           *)
(***************************************************************************)
removeARPSender_NoCancel(c, ts, deviceID) ==
    [canceller |-> [x \in (DOMAIN c) \ {deviceID} |-> c[x]], tasks |-> ts]

removeARPSender(c, ts, deviceID) ==
    IF deviceID \notin DOMAIN c
    THEN [canceller |-> c, tasks |-> ts]
    ELSE [canceller |-> [x \in (DOMAIN c) \ {deviceID} |-> c[x]],
          tasks     |-> [ts EXCEPT ![c[deviceID]].ctxDone = TRUE]]

(***************************************************************************)
(* processor.addARPSender: under the mutex, start a goroutine with a fresh *)
(* context and store its cancel function under the device id.              *)
(***************************************************************************)
addARPSender_ReplaceTable(c, ts, deviceID) ==
    [canceller |-> [x \in {deviceID} |-> Len(ts) + 1],
     tasks     |-> Append(ts, [dev |-> deviceID, ctxDone |-> FALSE, pc |-> "select"])]

addARPSender(c, ts, deviceID) ==
    [canceller |-> [x \in (DOMAIN c) \cup {deviceID} |->
                        IF x = deviceID THEN Len(ts) + 1 ELSE c[x]],
     tasks     |-> Append(ts, [dev |-> deviceID, ctxDone |-> FALSE, pc |-> "select"])]

(***************************************************************************)
(* processor.sendARPProbes: one probe pass.  closed is device.IsClosed(),  *)
(* db the result of GetUndiscoveredHosts, bad the addresses whose          *)
(* SendARPProbe fails.                                                     *)
(***************************************************************************)
RECURSIVE sendLoop_ContinueOnError(_, _)
sendLoop_ContinueOnError(hosts, bad) ==
    IF hosts = <<>> THEN [log |-> <<>>, err |-> "nil"]
    ELSE LET r == sendLoop_ContinueOnError(Tail(hosts), bad)
             e == IF Head(hosts) \in bad THEN "send error" ELSE "nil"
         IN  [log |-> <<Call("SendARPProbe", <<myMAC, Head(hosts)>>, e)>> \o r.log,
              err |-> IF e # "nil" THEN e ELSE r.err]

RECURSIVE sendLoop(_, _)
sendLoop(hosts, bad) ==
    IF hosts = <<>> THEN [log |-> <<>>, err |-> "nil"]
    ELSE IF Head(hosts) \in bad
         THEN [log |-> <<Call("SendARPProbe", <<myMAC, Head(hosts)>>, "send error")>>,
               err |-> "send error"]
         ELSE LET r == sendLoop(Tail(hosts), bad) IN
              [log |-> <<Call("SendARPProbe", <<myMAC, Head(hosts)>>, "nil")>> \o r.log,
               err |-> r.err]

\* A call of GetUndiscoveredHosts(1 * time.Minute) is recorded with the
\* hosts and the error it returned.
sendARPProbes_NoClosedCheck(closed, db, bad) ==
    LET r == sendLoop(db.hosts, bad) IN
    [log |-> <<Call("IsClosed", <<>>, IF closed THEN "true" ELSE "false"),
               Call("GetUndiscoveredHosts", <<60>>, db)>> \o r.log,
     err |-> IF db.err # "nil" THEN db.err ELSE r.err]

sendARPProbes(closed, db, bad) ==
    IF closed
    THEN [log |-> <<Call("IsClosed", <<>>, "true")>>, err |-> "already closed"]
    ELSE IF db.err # "nil"
         THEN [log |-> <<Call("IsClosed", <<>>, "false"),
                         Call("GetUndiscoveredHosts", <<60>>, db)>>,
               err |-> db.err]
         ELSE LET r == sendLoop(db.hosts, bad) IN
              [log |-> <<Call("IsClosed", <<>>, "false"),
                         Call("GetUndiscoveredHosts", <<60>>, db)>> \o r.log,
               err |-> r.err]

\* The results GetUndiscoveredHosts may return.
DbResults ==
    { [hosts |-> h, err |-> "nil"] : h \in HostLists }
        \cup { [hosts |-> <<>>, err |-> "db error"] }

\* The sets of addresses whose SendARPProbe fails: none, or all from the
\* k-th host of the list on.
BadSets(db) == { { db.hosts[i] : i \in k..Len(db.hosts) } : k \in 1..(Len(db.hosts) + 1) }

\* What a probe pass may meet: a closed device, or an open one with a
\* result of the database and failing sends.
ProbeEnvs ==
    { [closed |-> TRUE, db |-> [hosts |-> <<>>, err |-> "nil"], bad |-> {}] }
        \cup UNION { { [closed |-> FALSE, db |-> db, bad |-> bad] : bad \in BadSets(db) } :
                      db \in DbResults }

(***************************************************************************)
(* The device and port handlers.  A section run under the mutex is one     *)
(* step; what follows it in the handler touches no state of the processor  *)
(* and is one step too.                                                    *)
(***************************************************************************)
AllIdle == \A t \in Callers : th[t].pc = "idle"

\* Goroutines already started or about to be started by a running OnDeviceUp.
Started == Len(tasks) + Cardinality({ t \in Callers : th[t].pc = "up_add" })

\* OnDeviceUp, line 92: r.removeARPSender(device.ID()).
OnDeviceUpRemove(t, d) ==
    /\ th[t].pc = "idle"
    /\ Started < MaxTasks
    /\ LET r == removeARPSender(canceller, tasks, d) IN
         /\ canceller' = r.canceller
         /\ tasks' = r.tasks
    /\ th' = [th EXCEPT ![t] = [pc |-> "up_add", dev |-> d]]
    /\ done' = NoCall
    /\ pass' = NoPass
    /\ UNCHANGED <<ups, pkt, pm, act>>

\* OnDeviceUp, lines 93-96: r.addARPSender(device), then
\* return r.BaseProcessor.OnDeviceUp(finder, device).
OnDeviceUpAdd(t, nextErr) ==
    /\ th[t].pc = "up_add"
    /\ LET r == addARPSender(canceller, tasks, th[t].dev) IN
         /\ canceller' = r.canceller
         /\ tasks' = r.tasks
    /\ done' = [op |-> "OnDeviceUp", dev |-> th[t].dev, port |-> 0,
                prev |-> th[t].dev \in ups, in |-> <<>>,
                log |-> <<Call("next.OnDeviceUp", <<th[t].dev>>, nextErr)>>,
                ret |-> nextErr]
    /\ ups' = ups \cup {th[t].dev}
    /\ th' = [th EXCEPT ![t] = Idle]
    /\ pass' = NoPass
    /\ UNCHANGED <<pkt, pm, act>>

\* OnDeviceDown, line 235: r.removeARPSender(device.ID()).
OnDeviceDownRemove(t, d) ==
    /\ th[t].pc = "idle"
    /\ LET r == removeARPSender(canceller, tasks, d) IN
         /\ canceller' = r.canceller
         /\ tasks' = r.tasks
    /\ th' = [th EXCEPT ![t] = [pc |-> "down_reset", dev |-> d]]
    /\ done' = NoCall
    /\ pass' = NoPass
    /\ UNCHANGED <<ups, pkt, pm, act>>

\* OnDeviceDown, lines 237-249, after the sender was removed.
OnDeviceDownRest_IgnoreParseError(d, dbErr, nextErr) ==
    LET swDPID == ParseUint(d) IN
    IF dbErr # "nil"
    THEN [log |-> <<Call("ResetHostLocationsByDevice", <<swDPID.val>>, dbErr)>>,
          ret |-> dbErr]
    ELSE [log |-> <<Call("ResetHostLocationsByDevice", <<swDPID.val>>, "nil"),
                    Call("next.OnDeviceDown", <<d>>, nextErr)>>,
          ret |-> nextErr]

OnDeviceDownRest(d, dbErr, nextErr) ==
    LET swDPID == ParseUint(d) IN
    IF ~swDPID.ok
    THEN [log |-> <<>>, ret |-> "invalid device ID"]
    ELSE IF dbErr # "nil"
         THEN [log |-> <<Call("ResetHostLocationsByDevice", <<swDPID.val>>, dbErr)>>,
               ret |-> dbErr]
         ELSE [log |-> <<Call("ResetHostLocationsByDevice", <<swDPID.val>>, "nil"),
                         Call("next.OnDeviceDown", <<d>>, nextErr)>>,
               ret |-> nextErr]

OnDeviceDownReturn(t, dbErr, nextErr) ==
    /\ th[t].pc = "down_reset"
    /\ LET r == OnDeviceDownRest(th[t].dev, dbErr, nextErr) IN
         done' = [op |-> "OnDeviceDown", dev |-> th[t].dev, port |-> 0,
                  prev |-> th[t].dev \in ups, in |-> <<>>,
                  log |-> r.log, ret |-> r.ret]
    /\ ups' = ups \ {th[t].dev}
    /\ th' = [th EXCEPT ![t] = Idle]
    /\ pass' = NoPass
    /\ UNCHANGED <<canceller, tasks, pkt, pm, act>>

\* processor.OnPortUp: one probe pass, its error ignored, then the event is
\* propagated.
OnPortUp_StopOnError(closed, db, bad, d, n, nextErr) ==
    LET r == sendARPProbes(closed, db, bad) IN
    IF r.err # "nil" THEN [log |-> r.log, ret |-> r.err]
    ELSE [log |-> Append(r.log, Call("next.OnPortUp", <<d, n>>, nextErr)), ret |-> nextErr]

OnPortUp(closed, db, bad, d, n, nextErr) ==
    LET r == sendARPProbes(closed, db, bad) IN
    [log |-> Append(r.log, Call("next.OnPortUp", <<d, n>>, nextErr)), ret |-> nextErr]

DoPortUp(t, d, n, closed, db, bad, nextErr) ==
    /\ th[t].pc = "idle"
    /\ LET r == OnPortUp(closed, db, bad, d, n, nextErr) IN
         done' = [op |-> "OnPortUp", dev |-> d, port |-> n, prev |-> d \in ups,
                  in |-> <<>>, log |-> r.log, ret |-> r.ret]
    /\ pass' = NoPass
    /\ UNCHANGED <<canceller, tasks, th, ups, pkt, pm, act>>

\* processor.OnPortDown.
OnPortDown(d, n, dbErr, nextErr) ==
    LET swDPID == ParseUint(d) IN
    IF ~swDPID.ok
    THEN [log |-> <<>>, ret |-> "invalid device ID"]
    ELSE IF dbErr # "nil"
         THEN [log |-> <<Call("ResetHostLocationsByPort", <<swDPID.val, Uint16(n)>>, dbErr)>>,
               ret |-> dbErr]
         ELSE [log |-> <<Call("ResetHostLocationsByPort", <<swDPID.val, Uint16(n)>>, "nil"),
                         Call("next.OnPortDown", <<d, n>>, nextErr)>>,
               ret |-> nextErr]

DoPortDown(t, d, n, dbErr, nextErr) ==
    /\ th[t].pc = "idle"
    /\ LET r == OnPortDown(d, n, dbErr, nextErr) IN
         done' = [op |-> "OnPortDown", dev |-> d, port |-> n, prev |-> d \in ups,
                  in |-> <<>>, log |-> r.log, ret |-> r.ret]
    /\ pass' = NoPass
    /\ UNCHANGED <<canceller, tasks, th, ups, pkt, pm, act>>

(***************************************************************************)
(* The ARP sender goroutine of addARPSender, lines 104-120.                *)
(***************************************************************************)
\* The goroutine's next position at the top of the loop:
\* select { case <-ctx.Done(): return; default: }
AfterSelect_IgnoreCancel(ctxDone) == "probe"

AfterSelect(ctxDone) == IF ctxDone THEN "done" ELSE "probe"

TaskSelect(i) ==
    /\ i \in 1..Len(tasks)
    /\ tasks[i].pc = "select"
    /\ tasks' = [tasks EXCEPT ![i].pc = AfterSelect(tasks[i].ctxDone)]
    /\ done' = NoCall
    /\ pass' = NoPass
    /\ UNCHANGED <<canceller, th, ups, pkt, pm, act>>

\* The goroutine's next position after sendARPProbes returned err: the
\* error is logged and ignored, the goroutine sleeps and loops.
AfterProbe_StopOnError(err) == IF err # "nil" THEN "done" ELSE "select"

AfterProbe(err) == "select"

\* r.sendARPProbes(device), then time.Sleep(...) and the next iteration.

TaskProbe(i, closed, db, bad) ==
    /\ i \in 1..Len(tasks)
    /\ tasks[i].pc = "probe"
    /\ LET r == sendARPProbes(closed, db, bad) IN
         /\ tasks' = [tasks EXCEPT ![i].pc = AfterProbe(r.err)]
         /\ pass' = [task |-> i, log |-> r.log, err |-> r.err]
    /\ done' = NoCall
    /\ UNCHANGED <<canceller, th, ups, pkt, pm, act>>

(***************************************************************************)
(* processor.OnPacketIn.                                                   *)
(***************************************************************************)
EthARP == 2054      \* 0x0806

\* Line 167: the ARP operation of a reply.
isARPReply_LowByte(arp) == arp.Operation % 256 = 2

isARPReply(arp) == arp.Operation = 2

\* Line 174: bytes.Equal(arp.SHA, myMAC).
fromProbeSource_Prefix(arp) == SubSeq(arp.SHA, 1, 5) = SubSeq(myMAC, 1, 5)

fromProbeSource(arp) == arp.SHA = myMAC

\* An ARP packet for Ethernet and IPv4 on the wire: 28 bytes.
ARPPacket(op, sha, spa, tha, tpa) ==
    <<0, 1, 8, 0, 6, 4, op \div 256, op % 256>> \o sha \o spa \o tha \o tpa

\* protocol.ARP.UnmarshalBinary: the operation is the 16-bit big-endian
\* word at offset 6, the sender hardware address the 6 bytes at offset 8,
\* the target hardware and protocol addresses the bytes at 18 and at 24.
UnmarshalARP(data) ==
    IF Len(data) < 28
    THEN [ok |-> FALSE, Operation |-> 0, SHA |-> <<>>, THA |-> <<>>, TPA |-> <<>>]
    ELSE [ok |-> TRUE,
          Operation |-> data[7] * 256 + data[8],
          SHA |-> SubSeq(data, 9, 14),
          THA |-> SubSeq(data, 19, 24),
          TPA |-> SubSeq(data, 25, 28)]

\* Lines 194-200: RemoveFlowByMAC on each device of finder.Devices(); a
\* failure is logged and the loop continues.
RECURSIVE removeFlows_StopOnError(_, _, _)
removeFlows_StopOnError(devices, mac, failing) ==
    IF devices = <<>> THEN <<>>
    ELSE IF Head(devices) \in failing
         THEN <<Call("RemoveFlowByMAC", <<Head(devices), mac>>, "error")>>
         ELSE <<Call("RemoveFlowByMAC", <<Head(devices), mac>>, "nil")>>
                  \o removeFlows_StopOnError(Tail(devices), mac, failing)

RECURSIVE removeFlows(_, _, _)
removeFlows(devices, mac, failing) ==
    IF devices = <<>> THEN <<>>
    ELSE <<Call("RemoveFlowByMAC", <<Head(devices), mac>>,
                IF Head(devices) \in failing THEN "error" ELSE "nil")>>
             \o removeFlows(Tail(devices), mac, failing)

\* BaseProcessor.OnPacketIn(finder, ingress, eth): the frame handed to the
\* next processor, whose result is returned.
forwardPacket(ingress, eth, nextErr) ==
    [log |-> <<Call("next.OnPacketIn", <<ingress, eth>>, nextErr)>>, ret |-> nextErr]

\* Line 191: flows are removed if the location has been changed.
mustRemoveFlows_Always(upd) == TRUE

mustRemoveFlows(upd) == upd.updated

OnPacketIn(devices, ingress, eth, upd, failing, nextErr) ==
    IF eth.Type # EthARP THEN forwardPacket(ingress, eth, nextErr)
    ELSE LET arp == UnmarshalARP(eth.Payload) IN
    IF ~arp.ok THEN [log |-> <<>>, ret |-> "invalid ARP packet"]
    ELSE IF ~isARPReply(arp) THEN forwardPacket(ingress, eth, nextErr)
    ELSE IF ~fromProbeSource(arp) THEN [log |-> <<>>, ret |-> "nil"]
    ELSE LET swDPID == ParseUint(ingress.dev) IN
    IF ~swDPID.ok THEN [log |-> <<>>, ret |-> "invalid device ID"]
    ELSE LET args == <<arp.THA, arp.TPA, swDPID.val, Uint16(ingress.num)>> IN
    IF upd.err # "nil"
    THEN [log |-> <<Call("UpdateHostLocation", args, upd)>>, ret |-> upd.err]
    ELSE [log |-> <<Call("UpdateHostLocation", args, upd)>>
                    \o (IF mustRemoveFlows(upd) THEN removeFlows(devices, arp.THA, failing)
                        ELSE <<>>),
          ret |-> "nil"]

NoPkt == [pending |-> FALSE]

DoPacketIn ==
    /\ pkt.pending
    /\ LET r == OnPacketIn(pkt.devices, pkt.ingress, pkt.eth, pkt.upd, pkt.failing,
                           pkt.nextErr) IN
         done' = [op |-> "OnPacketIn", dev |-> pkt.ingress.dev, port |-> pkt.ingress.num,
                  prev |-> FALSE, in |-> pkt, log |-> r.log, ret |-> r.ret]
    /\ pkt' = NoPkt
    /\ pass' = NoPass
    /\ UNCHANGED <<canceller, tasks, th, ups, pm, act>>

\* The frames delivered: not ARP, ARP too short to decode, ARP requests,
\* and ARP replies from the probe source or from somewhere else.
MaxDevices == 2     \* devices known to the finder

otherMAC == <<6, 255, 41, 52, 130, 136>>

Payloads ==
    { ARPPacket(op, sha, IPs[1], hostMAC, IPs[2]) :
          op \in {1, 2, 258}, sha \in {myMAC, hostMAC, otherMAC} }
        \cup { SubSeq(ARPPacket(2, myMAC, IPs[1], hostMAC, IPs[2]), 1, 27), <<>> }

Frames == { [Type |-> t, Payload |-> p] : t \in {EthARP, 2048}, p \in Payloads }

AllDevices == <<<<"7">>, <<"s", "7">>, <<"0", "4", "2">>>>

\* What finder.Devices() may return: the first n devices.
FinderLists == { SubSeq(AllDevices, 1, n) : n \in 0..MaxDevices }

UpdResults ==
    { [updated |-> TRUE, err |-> "nil"], [updated |-> FALSE, err |-> "nil"],
      [updated |-> FALSE, err |-> "db error"], [updated |-> TRUE, err |-> "db error"] }

PktInputs ==
    UNION { { [pending |-> TRUE, devices |-> ds, failing |-> fl, eth |-> e,
               ingress |-> [dev |-> d, num |-> n], upd |-> u, nextErr |-> x] :
                  fl \in SUBSET { ds[i] : i \in 1..Len(ds) }, e \in Frames,
                  d \in PacketDeviceIDs, n \in PortNumbers, u \in UpdResults, x \in Errs } :
            ds \in FinderLists }

(***************************************************************************)
(* of10.ParseMessage.  A buffer is a Go slice: its bytes, and the bytes    *)
(* of its backing array beyond its length (spare), which a reslice within  *)
(* the capacity reaches.  Offsets are 0-based as in the source; a byte at  *)
(* offset k is data[k + 1].                                                *)
(***************************************************************************)
OFPT_FEATURES_REPLY == 6

OFPT_GET_CONFIG_REPLY == 8

OFPT_FLOW_REMOVED == 11

OFPT_PORT_STATUS == 12

OFPT_STATS_REPLY == 17

OFPST_DESC == 0

BigEndianUint16(hi, lo) == hi * 256 + lo

\* openflow.Message.UnmarshalBinary and openflow.Header.UnmarshalBinary:
\* the common 8-byte header {version, type, length, xid}.  The buffer must
\* hold the header, and the declared length must be at least the header
\* and at most the buffer.
HeaderUnmarshal(data) ==
    IF Len(data) < 8
    THEN [err |-> "ErrInvalidPacketLength", Type |-> 0, Length |-> 0, reads |-> 0]
    ELSE LET length == BigEndianUint16(data[3], data[4]) IN
         IF length < 8 \/ Len(data) < length
         THEN [err |-> "ErrInvalidPacketLength", Type |-> data[2], Length |-> length,
               reads |-> 8]
         ELSE [err |-> "nil", Type |-> data[2], Length |-> length, reads |-> 8]

\* nPorts := (r.header.Length - 32) / 48, line 157.
nPorts_RoundUp(length) == (length - 32 + 47) \div 48

nPorts(length) == (length - 32) \div 48

\* 32+i*48 of line 163, computed in uint16 as i is: the offset in the
\* buffer of the window of port i.
PortOffset_Uint8(i) == (32 + ((i * 48) % 256)) % 256

PortOffset(i) == Uint16(32 + Uint16(i * 48))

\* FeaturesReply.UnmarshalBinary.  portErr is the index of the first port
\* whose Port.UnmarshalBinary fails, 0 if none does.  reads is the offset
\* past the last byte read; ports are the windows [lo, hi) decoded.
FeaturesReplyUnmarshal(data, portErr) ==
    LET h == HeaderUnmarshal(data) IN
    IF h.err # "nil" THEN [err |-> h.err, reads |-> h.reads, ports |-> <<>>]
    ELSE IF h.Length < 32 \/ Len(data) < h.Length
    THEN [err |-> "ErrInvalidPacketLength", reads |-> h.reads, ports |-> <<>>]
    ELSE LET n == nPorts(h.Length)
             upto == IF portErr \in 1..n THEN portErr ELSE n
             ports == [k \in 1..upto |->
                          [lo |-> PortOffset(k - 1), hi |-> PortOffset(k - 1) + 48]]
         IN  [err |-> IF portErr \in 1..n THEN "port error" ELSE "nil",
              reads |-> IF upto = 0 THEN 32 ELSE ports[upto].hi,
              ports |-> ports]

\* The decoders of the other messages: each validates the length of its
\* own message and fails, or decodes within the declared length.
BodyUnmarshal(data, bodyErr) ==
    LET h == HeaderUnmarshal(data) IN
    IF h.err # "nil" THEN [err |-> h.err, reads |-> h.reads, ports |-> <<>>]
    ELSE IF bodyErr # "nil" THEN [err |-> "ErrInvalidPacketLength", reads |-> h.reads,
                                  ports |-> <<>>]
    ELSE [err |-> "nil", reads |-> h.Length, ports |-> <<>>]

\* The decoder ParseMessage selects for a message type; for a stats reply,
\* by the statistics type.
DecoderOf_StatsLowByte(type, statsType) ==
    IF type = OFPT_FEATURES_REPLY THEN "FeaturesReply"
    ELSE IF type = OFPT_GET_CONFIG_REPLY THEN "GetConfigReply"
    ELSE IF type = OFPT_STATS_REPLY
         THEN IF statsType % 256 = OFPST_DESC THEN "DescriptionReply" ELSE "none"
    ELSE IF type = OFPT_PORT_STATUS THEN "PortStatus"
    ELSE IF type = OFPT_FLOW_REMOVED THEN "FlowRemoved"
    ELSE "none"

DecoderOf(type, statsType) ==
    IF type = OFPT_FEATURES_REPLY THEN "FeaturesReply"
    ELSE IF type = OFPT_GET_CONFIG_REPLY THEN "GetConfigReply"
    ELSE IF type = OFPT_STATS_REPLY
         THEN IF statsType = OFPST_DESC THEN "DescriptionReply" ELSE "none"
    ELSE IF type = OFPT_PORT_STATUS THEN "PortStatus"
    ELSE IF type = OFPT_FLOW_REMOVED THEN "FlowRemoved"
    ELSE "none"

\* data[8:10] of a stats reply, line 33: the slice expression panics when
\* the capacity is below 10, and reaches into the backing array when only
\* the length is.
StatsTypeRead(data, spare) ==
    LET all == data \o spare IN
    IF Len(all) < 10 THEN [panic |-> TRUE, val |-> 0]
    ELSE [panic |-> FALSE, val |-> BigEndianUint16(all[9], all[10])]

ParseMessage(data, spare, portErr, bodyErr) ==
    LET msg == HeaderUnmarshal(data) IN
    IF msg.err # "nil"
    THEN [ret |-> msg.err, decoder |-> "none", reads |-> msg.reads, ports |-> <<>>]
    ELSE LET st == IF msg.Type = OFPT_STATS_REPLY THEN StatsTypeRead(data, spare)
                   ELSE [panic |-> FALSE, val |-> 0]
             reads == IF msg.Type = OFPT_STATS_REPLY THEN 10 ELSE msg.reads
             dec == DecoderOf(msg.Type, st.val)
         IN
         IF st.panic
         THEN [ret |-> "panic", decoder |-> "none", reads |-> reads, ports |-> <<>>]
         ELSE IF dec = "none"
         THEN [ret |-> "ErrUnsupportedMessage", decoder |-> "none", reads |-> reads,
               ports |-> <<>>]
         ELSE LET v == IF dec = "FeaturesReply" THEN FeaturesReplyUnmarshal(data, portErr)
                       ELSE BodyUnmarshal(data, bodyErr)
              IN  [ret |-> v.err, decoder |-> dec,
                   reads |-> IF v.reads > reads THEN v.reads ELSE reads,
                   ports |-> v.ports]

NoOut == [ret |-> "none", decoder |-> "none", reads |-> 0, ports |-> <<>>]

NoParse ==
    [pending |-> FALSE, data |-> <<>>, spare |-> <<>>, portErr |-> 0, bodyErr |-> "nil",
     out |-> NoOut]

DoParseMessage ==
    /\ pm.pending
    /\ pm' = [pm EXCEPT !.pending = FALSE,
                        !.out = ParseMessage(pm.data, pm.spare, pm.portErr, pm.bodyErr)]
    /\ done' = NoCall
    /\ pass' = NoPass
    /\ UNCHANGED <<canceller, tasks, th, ups, pkt, act>>

\* The buffers presented: a header with a type and a declared length, a
\* statistics type at offset 8, zeros after it; cut or padded to n bytes.
MaxSpare == 2       \* bytes of the backing array beyond the buffer

Buffer(type, length, statsType, n) ==
    LET full == <<1, type, length \div 256, length % 256, 0, 0, 0, 1,
                  statsType \div 256, statsType % 256>> IN
    [i \in 1..n |-> IF i <= 10 THEN full[i] ELSE 0]

MsgTypes ==
    { 0, OFPT_FEATURES_REPLY, OFPT_GET_CONFIG_REPLY, OFPT_FLOW_REMOVED, OFPT_PORT_STATUS,
      OFPT_STATS_REPLY, 255 }

BufferLens == { 0, 7, 8, 9, 10, 12, 32, 80 }

DeclaredLens == { 0, 7, 8, 9, 10, 12, 31, 32, 79, 80, 300 }

StatsTypes == { 0, 1, 256 }

\* What the backing array may hold beyond the buffer.
Spares == UNION { [1..k -> {0, 1}] : k \in 0..MaxSpare }

ParseInputs ==
    { [pending |-> TRUE, data |-> Buffer(t, l, st, n), spare |-> sp,
       portErr |-> pe, bodyErr |-> be, out |-> NoOut] :
          t \in MsgTypes, l \in DeclaredLens, st \in StatsTypes, n \in BufferLens,
          sp \in Spares, pe \in 0..1, be \in Errs }

\* The features replies presented: declared lengths around 32 and around
\* whole numbers of ports, up to the largest a 16-bit length field holds, in
\* buffers shorter than, equal to and longer than declared.
FeaturesLens == { 8, 31, 32, 33, 79, 80, 81, 127, 128, 176, 65503, 65504, 65535 }

FeaturesBufferLens == { 8, 31, 32, 80, 128, 176, 65535 }

FeaturesInputs ==
    { [pending |-> TRUE, data |-> Buffer(OFPT_FEATURES_REPLY, l, 0, n), spare |-> <<>>,
       portErr |-> pe, bodyErr |-> "nil", out |-> NoOut] :
          l \in FeaturesLens, n \in FeaturesBufferLens, pe \in 0..3 }

(***************************************************************************)
(* openflow.BaseAction.  A net.HardwareAddr argument is a slice: nil, or   *)
(* its bytes.  srcMAC and dstMAC are pointers: nil, or the address stored. *)
(***************************************************************************)
MaxCalls == 3       \* calls made on one action

ZeroMAC == <<0, 0, 0, 0, 0, 0>>

NilAddr == [nil |-> TRUE, bytes |-> <<>>]

Addr(bytes) == [nil |-> FALSE, bytes |-> bytes]

NilPtr == [set |-> FALSE, mac |-> <<>>]

NewBaseAction == [output |-> {}, srcMAC |-> NilPtr, dstMAC |-> NilPtr]

SetOutput(a, port) == [a |-> [a EXCEPT !.output = @ \cup {port}], err |-> "nil"]

Output(a) == a.output

SetSrcMAC_StoreThenCheck(a, mac) ==
    [a |-> [a EXCEPT !.srcMAC = [set |-> TRUE, mac |-> mac.bytes]],
     err |-> IF mac.nil \/ Len(mac.bytes) < 6 THEN "invalid MAC address" ELSE "nil"]

SetSrcMAC(a, mac) ==
    IF mac.nil \/ Len(mac.bytes) < 6
    THEN [a |-> a, err |-> "invalid MAC address"]
    ELSE [a |-> [a EXCEPT !.srcMAC = [set |-> TRUE, mac |-> mac.bytes]], err |-> "nil"]

SrcMAC(a) ==
    IF ~a.srcMAC.set THEN [ok |-> FALSE, mac |-> ZeroMAC]
    ELSE [ok |-> TRUE, mac |-> a.srcMAC.mac]

SetDstMAC(a, mac) ==
    IF mac.nil \/ Len(mac.bytes) < 6
    THEN [a |-> a, err |-> "invalid MAC address"]
    ELSE [a |-> [a EXCEPT !.dstMAC = [set |-> TRUE, mac |-> mac.bytes]], err |-> "nil"]

DstMAC(a) ==
    IF ~a.dstMAC.set THEN [ok |-> FALSE, mac |-> ZeroMAC]
    ELSE [ok |-> TRUE, mac |-> a.dstMAC.mac]

\* The addresses passed to the setters: nil, empty, of 5, 6 and 7 bytes.
Addrs ==
    { NilAddr, Addr(<<>>), Addr(<<2, 0, 0, 0, 1>>), Addr(hostMAC), Addr(myMAC),
      Addr(<<2, 0, 0, 0, 0, 1, 9>>) }

OutputPorts == {1, 2}

NoAction == [a |-> NewBaseAction, log |-> <<>>]

\* One call on the action, recorded with its argument and its result.
DoSetOutput(port) ==
    /\ Len(act.log) < MaxCalls
    /\ LET r == SetOutput(act.a, port) IN
         act' = [a |-> r.a, log |-> Append(act.log, Call("SetOutput", <<port>>, r.err))]
    /\ UNCHANGED <<canceller, tasks, th, ups, done, pass, pkt, pm>>

DoSetSrcMAC(mac) ==
    /\ Len(act.log) < MaxCalls
    /\ LET r == SetSrcMAC(act.a, mac) IN
         act' = [a |-> r.a, log |-> Append(act.log, Call("SetSrcMAC", <<mac>>, r.err))]
    /\ UNCHANGED <<canceller, tasks, th, ups, done, pass, pkt, pm>>

DoSetDstMAC(mac) ==
    /\ Len(act.log) < MaxCalls
    /\ LET r == SetDstMAC(act.a, mac) IN
         act' = [a |-> r.a, log |-> Append(act.log, Call("SetDstMAC", <<mac>>, r.err))]
    /\ UNCHANGED <<canceller, tasks, th, ups, done, pass, pkt, pm>>

(***************************************************************************)
(* The state after New(db): an empty canceller table, no goroutine.        *)
(***************************************************************************)
EngineInit ==
    /\ canceller = <<>>
    /\ tasks = <<>>
    /\ th = [t \in Callers |-> Idle]
    /\ ups = {}
    /\ done = NoCall
    /\ pass = NoPass
    /\ act = NoAction

Init ==
    /\ EngineInit
    /\ pkt = NoPkt
    /\ pm = NoParse

TaskNext ==
    \E i \in 1..MaxTasks :
        \/ TaskSelect(i)
        \/ \E e \in ProbeEnvs : TaskProbe(i, e.closed, e.db, e.bad)

\* DeviceUp and DeviceDown events for one device id delivered by callers
\* that may overlap, and the goroutines.
Next ==
    \/ \E t \in Callers, d \in RaceIDs : OnDeviceUpRemove(t, d)
    \/ \E t \in Callers, e \in Errs : OnDeviceUpAdd(t, e)
    \/ \E t \in Callers, d \in RaceIDs : OnDeviceDownRemove(t, d)
    \/ \E t \in Callers, e \in ResetEnvs : OnDeviceDownReturn(t, e.dbErr, e.nextErr)
    \/ TaskNext

Spec == Init /\ [][Next]_vars

\* Device and port events delivered one at a time: a handler starts only
\* when no other handler is running.  The goroutines' own steps, which
\* change nothing but their position in the loop, are left to Spec.
SeqNext ==
    \/ AllIdle /\ \E d \in DeviceIDs : OnDeviceUpRemove(1, d)
    \/ \E e \in Errs : OnDeviceUpAdd(1, e)
    \/ AllIdle /\ \E d \in DeviceIDs : OnDeviceDownRemove(1, d)
    \/ \E e \in ResetEnvs : OnDeviceDownReturn(1, e.dbErr, e.nextErr)
    \/ AllIdle /\ \E d \in DeviceIDs, e \in ProbeEnvs, f \in Errs :
           DoPortUp(1, d, 1, e.closed, e.db, e.bad, f)
    \/ AllIdle /\ \E d \in PortDeviceIDs, n \in PortNumbers, e \in ResetEnvs :
           DoPortDown(1, d, n, e.dbErr, e.nextErr)

SpecSeq == Init /\ [][SeqNext]_vars

\* The events of one device delivered one at a time, with the port-up
\* passes, and the goroutines with their periodic passes.
ProbeNext ==
    \/ AllIdle /\ \E d \in RaceIDs : OnDeviceUpRemove(1, d)
    \/ \E e \in Errs : OnDeviceUpAdd(1, e)
    \/ AllIdle /\ \E d \in RaceIDs : OnDeviceDownRemove(1, d)
    \/ \E e \in ResetEnvs : OnDeviceDownReturn(1, e.dbErr, e.nextErr)
    \/ AllIdle /\ \E d \in RaceIDs, e \in ProbeEnvs, f \in Errs :
           DoPortUp(1, d, 1, e.closed, e.db, e.bad, f)
    \/ TaskNext

SpecProbe == Init /\ [][ProbeNext]_vars

\* The same, with every goroutine that can take a step eventually taking
\* it: the scheduler runs a runnable goroutine, and the store query, the
\* probe sends and the sleep of a pass return.
SpecFair ==
    /\ SpecProbe
    /\ \A i \in 1..MaxTasks :
           /\ WF_vars(TaskSelect(i))
           /\ WF_vars(\E e \in ProbeEnvs : TaskProbe(i, e.closed, e.db, e.bad))

\* One frame delivered to OnPacketIn.
PktInit ==
    /\ EngineInit
    /\ pkt \in PktInputs
    /\ pm = NoParse

PktNext == DoPacketIn

SpecPkt == PktInit /\ [][PktNext]_vars

\* One buffer presented to ParseMessage.
ParseInit ==
    /\ EngineInit
    /\ pkt = NoPkt
    /\ pm \in ParseInputs

ParseNext == DoParseMessage

SpecParse == ParseInit /\ [][ParseNext]_vars

\* One features reply presented to ParseMessage.
FeaturesInit ==
    /\ EngineInit
    /\ pkt = NoPkt
    /\ pm \in FeaturesInputs

SpecFeatures == FeaturesInit /\ [][ParseNext]_vars

\* Calls made one after the other on one action.
ActionNext ==
    \/ \E port \in OutputPorts : DoSetOutput(port)
    \/ \E mac \in Addrs : DoSetSrcMAC(mac)
    \/ \E mac \in Addrs : DoSetDstMAC(mac)

SpecAction == Init /\ [][ActionNext]_vars

(***************************************************************************)
(* The probing tasks of a device id that were started and not cancelled.   *)
(***************************************************************************)
Live(d) == { i \in 1..Len(tasks) : tasks[i].dev = d /\ ~tasks[i].ctxDone }

\* C1: under any interleaving of overlapping OnDeviceUp and OnDeviceDown
\* calls for one device id, at most one probing task of that id is started
\* and not cancelled at any time.
C1_AtMostOneLiveTask == \A d \in DeviceIDs : Cardinality(Live(d)) <= 1

\* C2: when an OnDeviceUp for a device id follows an OnDeviceUp for the
\* same id, the earlier task of that id has been cancelled and the table
\* holds one entry for the id, the handle of the task just started, which
\* is the only task of the id not cancelled.
C2_SecondUpLeavesOneTask ==
    (done.op = "OnDeviceUp" /\ done.prev) =>
        /\ done.dev \in DOMAIN canceller
        /\ canceller[done.dev] = Len(tasks)
        /\ Live(done.dev) = {Len(tasks)}
        /\ \E i \in 1..(Len(tasks) - 1) : tasks[i].dev = done.dev /\ tasks[i].ctxDone

C2_Witness ==
    /\ done.op = "OnDeviceUp"
    /\ done.prev
    /\ Len(tasks) >= 2
    /\ tasks[Len(tasks) - 1].dev = done.dev
    /\ tasks[Len(tasks) - 1].ctxDone

\* The device ids of the model that are decimal numbers below 2^64.
DecimalIDs == { <<"7">>, <<"0", "4", "2">>, MaxUint64Str }

\* C3 as stated: when OnDeviceDown returns, whatever the device id, no
\* task of the device is left uncancelled, the table has no entry for the
\* id and ResetHostLocationsByDevice has been called.
C3_AlwaysReset ==
    done.op = "OnDeviceDown" =>
        /\ Live(done.dev) = {}
        /\ done.dev \notin DOMAIN canceller
        /\ Calls(done.log, "ResetHostLocationsByDevice") # {}

\* C3 amended: when OnDeviceDown returns, no task of the device is left
\* uncancelled and the table has no entry for the id; for an id that is a
\* decimal number below 2^64, ResetHostLocationsByDevice was called once,
\* with that number; for any other id it was not called, and the call
\* returns the invalid device ID error.
C3_ResetIfDecimal ==
    done.op = "OnDeviceDown" =>
        /\ Live(done.dev) = {}
        /\ done.dev \notin DOMAIN canceller
        /\ IF done.dev \in DecimalIDs
           THEN /\ Cardinality(Calls(done.log, "ResetHostLocationsByDevice")) = 1
                /\ done.log[1].fn = "ResetHostLocationsByDevice"
                /\ done.log[1].args = <<StripZeros(done.dev)>>
           ELSE /\ done.log = <<>>
                /\ done.ret = "invalid device ID"

C3_Witness ==
    /\ done.op = "OnDeviceDown"
    /\ done.prev
    /\ done.dev \notin DecimalIDs
    /\ \E i \in 1..Len(tasks) : tasks[i].dev = done.dev /\ tasks[i].ctxDone

(***************************************************************************)
(* Frames, read from their bytes.                                          *)
(***************************************************************************)
\* An Ethernet frame of type ARP carrying an ARP packet of operation 2.
IsARPReplyFrame(eth) ==
    /\ eth.Type = 2054
    /\ Len(eth.Payload) >= 28
    /\ eth.Payload[7] = 0
    /\ eth.Payload[8] = 2

\* An Ethernet frame of type ARP whose payload is too short for ARP.
IsBrokenARPFrame(eth) == eth.Type = 2054 /\ Len(eth.Payload) < 28

SenderOf(eth) == SubSeq(eth.Payload, 9, 14)

TargetOf(eth) == SubSeq(eth.Payload, 19, 24)

\* The frame was handed once, as delivered, to the next processor, nothing
\* else was called, and the next processor's result is returned.
ForwardedUnmodified ==
    /\ Len(done.log) = 1
    /\ done.log[1].fn = "next.OnPacketIn"
    /\ done.log[1].args = <<done.in.ingress, done.in.eth>>
    /\ done.ret = done.log[1].res

\* C4: an ARP reply whose sender hardware address is not the probe source
\* makes OnPacketIn call nothing (no UpdateHostLocation, no flow removal,
\* no next processor) and return no error.
C4_ForeignReplyDropped ==
    (done.op = "OnPacketIn" /\ IsARPReplyFrame(done.in.eth)
         /\ SenderOf(done.in.eth) # myMAC) =>
        done.log = <<>> /\ done.ret = "nil"

C4_Witness ==
    /\ done.op = "OnPacketIn"
    /\ IsARPReplyFrame(done.in.eth)
    /\ SenderOf(done.in.eth) = otherMAC
    /\ ParseUint(done.in.ingress.dev).ok
    /\ done.in.upd.updated
    /\ done.log = <<>>

\* C5: when UpdateHostLocation returned updated=true, RemoveFlowByMAC of
\* the target MAC is attempted once on each device of finder.Devices(), in
\* order, whichever of the attempts fail.
C5_OneRemovalPerDevice ==
    (done.op = "OnPacketIn"
         /\ \E i \in Calls(done.log, "UpdateHostLocation") :
                done.log[i].res.updated /\ done.log[i].res.err = "nil") =>
        LET ds == done.in.devices IN
        /\ Cardinality(Calls(done.log, "RemoveFlowByMAC")) = Len(ds)
        /\ Len(done.log) = Len(ds) + 1
        /\ \A k \in 1..Len(ds) :
               /\ done.log[k + 1].fn = "RemoveFlowByMAC"
               /\ done.log[k + 1].args = <<ds[k], TargetOf(done.in.eth)>>

C5_Witness ==
    /\ done.op = "OnPacketIn"
    /\ Len(done.in.devices) >= 2
    /\ done.in.devices[1] \in done.in.failing
    /\ Cardinality(Calls(done.log, "RemoveFlowByMAC")) = Len(done.in.devices)
    /\ done.log[2].res = "error"

\* C6 as stated: every frame that is not an ARP reply, an ARP frame that
\* cannot be decoded included, is forwarded unmodified to the next
\* processor and the store is not touched.
C6_AllOthersForwarded ==
    (done.op = "OnPacketIn" /\ ~IsARPReplyFrame(done.in.eth)) => ForwardedUnmodified

\* C6 amended: a frame that is not of type ARP, or is an ARP packet of an
\* operation other than 2, is forwarded unmodified to the next processor
\* and the store is not touched; an ARP frame whose payload cannot be
\* decoded is not forwarded: OnPacketIn returns the decoding error, and
\* calls nothing.
C6_OthersForwardedUnlessBroken ==
    (done.op = "OnPacketIn" /\ ~IsARPReplyFrame(done.in.eth)) =>
        IF IsBrokenARPFrame(done.in.eth)
        THEN done.log = <<>> /\ done.ret = "invalid ARP packet"
        ELSE ForwardedUnmodified

C6_Witness ==
    /\ done.op = "OnPacketIn"
    /\ done.in.eth.Type = 2054
    /\ Len(done.in.eth.Payload) = 28
    /\ done.in.eth.Payload[7] = 1
    /\ done.in.eth.Payload[8] = 2
    /\ SenderOf(done.in.eth) = myMAC
    /\ ForwardedUnmodified

(***************************************************************************)
(* The calls of a handler to the next processor.                           *)
(***************************************************************************)
Forwards(log) ==
    { i \in 1..Len(log) :
          log[i].fn \in {"next.OnDeviceUp", "next.OnDeviceDown", "next.OnPortUp",
                         "next.OnPortDown"} }

DeviceEvents == {"OnDeviceUp", "OnDeviceDown", "OnPortUp", "OnPortDown"}

\* The event was handed once to the next processor, as the handler's last
\* call, and the next processor's result is returned.
ForwardedOnce(fn) ==
    /\ Cardinality(Forwards(done.log)) = 1
    /\ done.log[Len(done.log)].fn = fn
    /\ done.ret = done.log[Len(done.log)].res

\* C7 as stated: every DeviceUp, DeviceDown, PortUp and PortDown event is
\* forwarded to the next processor exactly once, whatever the store or the
\* probe send returns and whatever the device id is.
C7_AlwaysForwarded ==
    done.op \in DeviceEvents => Cardinality(Forwards(done.log)) = 1

\* C7 amended: every DeviceUp and PortUp event is forwarded to the next
\* processor exactly once, whatever the probe pass returns; a DeviceDown
\* or PortDown event is forwarded exactly once when the device id is a
\* decimal number below 2^64 and the reset of the host locations succeeds,
\* and otherwise is not forwarded: the handler returns the error.
C7_ForwardedUnlessError ==
    /\ done.op = "OnDeviceUp" => ForwardedOnce("next.OnDeviceUp")
    /\ done.op = "OnPortUp" => ForwardedOnce("next.OnPortUp")
    /\ done.op \in {"OnDeviceDown", "OnPortDown"} =>
           IF done.dev \in DecimalIDs /\ done.log # <<>> /\ done.log[1].res = "nil"
           THEN ForwardedOnce(IF done.op = "OnDeviceDown" THEN "next.OnDeviceDown"
                              ELSE "next.OnPortDown")
           ELSE /\ Forwards(done.log) = {}
                /\ done.ret \in {"invalid device ID", "db error"}
                /\ done.dev \in DecimalIDs <=> done.log # <<>>

C7_Witness ==
    /\ done.op = "OnPortUp"
    /\ \E i \in Calls(done.log, "SendARPProbe") : done.log[i].res = "send error"
    /\ ForwardedOnce("next.OnPortUp")

\* C8: a probing task ends only at the top of its loop and only when its
\* own context was cancelled; after a probe pass, whatever it returned (a
\* closed device, a failed query, a failed send), the task is back at the
\* top of the loop, and from there, if not cancelled, starts another pass.
C8_TaskSurvivesErrors ==
    [][\A i \in 1..Len(tasks) :
           /\ (tasks[i].pc # "done" /\ tasks'[i].pc = "done") =>
                  (tasks[i].pc = "select" /\ tasks[i].ctxDone)
           /\ (pass'.task = i /\ pass'.err # "nil") => tasks'[i].pc = "select"
           /\ (tasks[i].pc = "select" /\ ~tasks[i].ctxDone
                   /\ tasks'[i].pc # "select") => tasks'[i].pc = "probe"]_vars

C8_Witness ==
    /\ pass.task \in 1..Len(tasks)
    /\ pass.err = "send error"
    /\ tasks[pass.task].pc = "select"
    /\ ~tasks[pass.task].ctxDone

(***************************************************************************)
(* Buffers, read from their bytes.                                         *)
(***************************************************************************)
DeclaredLength(data) == data[3] * 256 + data[4]

\* The buffer holds the 8-byte header and the length it declares.
ValidHeader(data) ==
    /\ Len(data) >= 8
    /\ DeclaredLength(data) >= 8
    /\ DeclaredLength(data) <= Len(data)

Parsed == pm.out.ret # "none"

\* C9: ParseMessage reads no byte at or beyond the length of the buffer,
\* and a buffer shorter than its declared length yields
\* ErrInvalidPacketLength.
C9_NoReadPastBuffer ==
    Parsed =>
        /\ pm.out.ret # "panic"
        /\ pm.out.reads <= Len(pm.data)
        /\ ~ValidHeader(pm.data) => pm.out.ret = "ErrInvalidPacketLength"

\* C10: a failure to decode the header is returned, and no decoder runs;
\* with a valid header, a message type other than features reply, get
\* config reply, stats reply, port status and flow removed, and a stats
\* reply whose statistics type (the bytes at offsets 8 and 9 of the
\* buffer) is not the description type, yield ErrUnsupportedMessage, and
\* no decoder runs.
C10_UnsupportedMessage ==
    Parsed =>
        LET d == pm.data IN
        /\ ~ValidHeader(d) =>
               pm.out.ret = "ErrInvalidPacketLength" /\ pm.out.decoder = "none"
        /\ (ValidHeader(d) /\ d[2] \notin {6, 8, 11, 12, 17}) =>
               pm.out.ret = "ErrUnsupportedMessage" /\ pm.out.decoder = "none"
        /\ (ValidHeader(d) /\ d[2] = 17 /\ Len(d) >= 10 /\ (d[9] # 0 \/ d[10] # 0)) =>
               pm.out.ret = "ErrUnsupportedMessage" /\ pm.out.decoder = "none"

C10_Witness ==
    /\ Parsed
    /\ ValidHeader(pm.data)
    /\ pm.data[2] = 17
    /\ Len(pm.data) >= 10
    /\ pm.data[9] = 1
    /\ pm.data[10] = 0
    /\ pm.out.ret = "ErrUnsupportedMessage"

(***************************************************************************)
(* The features reply, read from the bytes of the buffer.                  *)
(***************************************************************************)
IsFeaturesReply(data) == Len(data) >= 8 /\ data[2] = 6

\* C11: decoding a features reply whose declared length is below 32, or
\* whose buffer is shorter than the declared length, fails with
\* ErrInvalidPacketLength and decodes no port; otherwise, unless a port
\* decoder fails, exactly (length - 32) \div 48 ports are decoded, port i
\* (from 0) from the bytes [32 + 48*i, 32 + 48*i + 48), in wire order: none
\* for length 32, k for length 32 + 48*k.
C11_PortWindows ==
    (Parsed /\ IsFeaturesReply(pm.data)) =>
        LET L == DeclaredLength(pm.data) IN
        IF L < 32 \/ Len(pm.data) < L
        THEN pm.out.ret = "ErrInvalidPacketLength" /\ pm.out.ports = <<>>
        ELSE pm.out.ret # "port error" =>
                 /\ pm.out.ret = "nil"
                 /\ Len(pm.out.ports) * 48 <= L - 32
                 /\ (Len(pm.out.ports) + 1) * 48 > L - 32
                 /\ \A k \in 1..Len(pm.out.ports) :
                        /\ pm.out.ports[k].lo = 32 + 48 * (k - 1)
                        /\ pm.out.ports[k].hi = 32 + 48 * (k - 1) + 48

C11_Witness ==
    /\ Parsed
    /\ IsFeaturesReply(pm.data)
    /\ DeclaredLength(pm.data) = 128
    /\ Len(pm.data) = 176
    /\ pm.out.ret = "nil"
    /\ pm.out.ports = <<[lo |-> 32, hi |-> 80], [lo |-> 80, hi |-> 128]>>

\* C19: in decoding a features reply of any declared length from 32 to
\* 65535 held by the buffer, the offset of every port window decoded is
\* 32 + 48*i without wrapping around 2^16, the window ends at or before
\* the declared length, and so nothing at or beyond the length of the
\* buffer is read.
C19_NoWrapNoOverrun ==
    (Parsed /\ IsFeaturesReply(pm.data) /\ DeclaredLength(pm.data) >= 32
         /\ DeclaredLength(pm.data) <= Len(pm.data)) =>
        /\ pm.out.ret # "panic"
        /\ \A k \in 1..Len(pm.out.ports) :
               /\ pm.out.ports[k].lo = 32 + 48 * (k - 1)
               /\ pm.out.ports[k].lo < 65536
               /\ pm.out.ports[k].hi <= DeclaredLength(pm.data)
        /\ pm.out.reads <= Len(pm.data)

C19_Witness ==
    /\ Parsed
    /\ IsFeaturesReply(pm.data)
    /\ DeclaredLength(pm.data) = 65535
    /\ Len(pm.out.ports) = 1364
    /\ pm.out.ports[1364] = [lo |-> 65456, hi |-> 65504]

(***************************************************************************)
(* The calls made on the action.                                           *)
(***************************************************************************)
\* The successful calls of a setter, and the address of the last of them.
Succeeded(fn) == { i \in Calls(act.log, fn) : act.log[i].res = "nil" }

LastSet(fn) ==
    LET i == CHOOSE j \in Succeeded(fn) : \A k \in Succeeded(fn) : k <= j IN
    act.log[i].args[1].bytes

Reported(fn, got) ==
    IF Succeeded(fn) = {} THEN got = [ok |-> FALSE, mac |-> <<0, 0, 0, 0, 0, 0>>]
    ELSE got = [ok |-> TRUE, mac |-> LastSet(fn)]

\* C12: after any sequence of calls, each getter reports the address of
\* the last successful set of its field, or absent with the zero address
\* if none succeeded; a set with a nil address or one shorter than 6 bytes
\* fails; and the output ports are those given to SetOutput, so that no
\* set of an address, failed or not, changes the other address or the
\* ports.
C12_GettersReportLastSet ==
    /\ Reported("SetSrcMAC", SrcMAC(act.a))
    /\ Reported("SetDstMAC", DstMAC(act.a))
    /\ Output(act.a) = { act.log[i].args[1] : i \in Calls(act.log, "SetOutput") }
    /\ \A i \in Calls(act.log, "SetSrcMAC") \cup Calls(act.log, "SetDstMAC") :
           (act.log[i].args[1].nil \/ Len(act.log[i].args[1].bytes) < 6) =>
               act.log[i].res # "nil"

C12_Witness ==
    /\ Len(act.log) = 3
    /\ act.log[1] = Call("SetSrcMAC", <<Addr(hostMAC)>>, "nil")
    /\ act.log[2].fn = "SetSrcMAC"
    /\ act.log[2].args[1].nil
    /\ act.log[3] = Call("SetDstMAC", <<Addr(myMAC)>>, "nil")
    /\ SrcMAC(act.a) = [ok |-> TRUE, mac |-> hostMAC]

\* C13: SetSrcMAC and SetDstMAC succeed only for an address of 6 bytes: a
\* nil address and an address of any other length, shorter or longer, are
\* rejected with an error.
C13_OnlySixBytesAccepted ==
    \A i \in Calls(act.log, "SetSrcMAC") \cup Calls(act.log, "SetDstMAC") :
        act.log[i].res = "nil" =>
            ~act.log[i].args[1].nil /\ Len(act.log[i].args[1].bytes) = 6

\* C14: a cancelled task stays cancelled; a probe pass is run only by a
\* task that passed the select at the top of its loop, and leaves the task
\* at that select again; a cancelled task at the select starts no pass: so
\* after its cancel handle was called a task runs at most the one pass
\* whose select it had passed before; and, every step of a goroutine
\* returning, a cancelled task eventually ends.
C14_CancelStopsTask ==
    /\ [][\A i \in 1..Len(tasks) :
              /\ tasks[i].ctxDone => tasks'[i].ctxDone
              /\ pass'.task = i => (tasks[i].pc = "probe" /\ tasks'[i].pc = "select")
              /\ (tasks[i].ctxDone /\ tasks[i].pc = "select") => tasks'[i].pc # "probe"
              /\ tasks[i].pc = "done" => tasks'[i].pc = "done"]_vars
    /\ \A i \in 1..MaxTasks :
           (i \in 1..Len(tasks) /\ tasks[i].ctxDone)
               ~> (i \in 1..Len(tasks) /\ tasks[i].pc = "done")

C14_Witness ==
    /\ pass.task \in 1..Len(tasks)
    /\ tasks[pass.task].ctxDone
    /\ tasks[pass.task].pc = "select"
    /\ pass.task \notin { canceller[d] : d \in DOMAIN canceller }

(***************************************************************************)
(* The probe passes: the periodic pass of a goroutine and the pass of an   *)
(* OnPortUp, each read from the calls it made.                             *)
(***************************************************************************)
\* The calls of the probe pass run in the step just taken: all the calls
\* of a periodic pass, the calls of OnPortUp before its last, which hands
\* the event on.
PassLogs ==
    (IF pass.task # 0 THEN {pass.log} ELSE {})
        \cup (IF done.op = "OnPortUp"
              THEN {SubSeq(done.log, 1, Len(done.log) - 1)} ELSE {})

SendsOf(log) == SelectSeq(log, LAMBDA c : c.fn = "SendARPProbe")

\* C15: a probe pass, periodic or of a PortUp, on a device whose closed
\* check is true makes no other call: no GetUndiscoveredHosts, no
\* SendARPProbe.
C15_ClosedPassAborts ==
    \A log \in PassLogs :
        (log # <<>> /\ log[1].fn = "IsClosed" /\ log[1].res = "true") =>
            /\ Calls(log, "GetUndiscoveredHosts") = {}
            /\ Calls(log, "SendARPProbe") = {}
            /\ Len(log) = 1

C15_Witness ==
    /\ pass.task \in 1..Len(tasks)
    /\ pass.log = <<Call("IsClosed", <<>>, "true")>>
    /\ pass.err = "already closed"
    /\ tasks[pass.task].pc = "select"

\* The pass queried the store and got hosts without error.
GotHosts(log) ==
    /\ Len(log) >= 2
    /\ log[1].fn = "IsClosed" /\ log[1].res = "false"
    /\ log[2].fn = "GetUndiscoveredHosts" /\ log[2].res.err = "nil"

\* C16 as stated: in a pass on an open device whose query succeeded, a
\* probe from the probe source is attempted for every host returned, in
\* the order returned, whether or not a send fails.
C16_AllHostsProbed ==
    \A log \in PassLogs :
        GotHosts(log) =>
            LET hosts == log[2].res.hosts  sends == SendsOf(log) IN
            /\ Len(sends) = Len(hosts)
            /\ \A k \in 1..Len(hosts) : sends[k].args = <<myMAC, hosts[k]>>

\* C16 amended: in such a pass a probe from the probe source is attempted
\* for the hosts returned, in the order returned, up to and including the
\* first host whose send fails; the hosts after it are not attempted in
\* that pass; when no send fails every host returned is attempted.
C16_ProbedUntilFailure ==
    \A log \in PassLogs :
        GotHosts(log) =>
            LET hosts == log[2].res.hosts  sends == SendsOf(log) IN
            /\ Len(sends) <= Len(hosts)
            /\ Len(log) = 2 + Len(sends)
            /\ \A k \in 1..Len(sends) :
                   /\ sends[k].args = <<myMAC, hosts[k]>>
                   /\ k < Len(sends) => sends[k].res = "nil"
            /\ Len(sends) < Len(hosts) => sends[Len(sends)].res # "nil"

C16_Witness ==
    /\ done.op = "OnPortUp"
    /\ GotHosts(done.log)
    /\ Len(done.log[2].res.hosts) = 2
    /\ Len(SendsOf(done.log)) = 1
    /\ done.log[3].res = "send error"

\* C17: an ARP reply whose sender hardware address is the probe source is
\* never handed to the next processor, whatever UpdateHostLocation
\* returns; and RemoveFlowByMAC is attempted only when UpdateHostLocation,
\* called once in that same call, returned updated=true and no error.
C17_ValidatedReplyConsumed ==
    (done.op = "OnPacketIn" /\ IsARPReplyFrame(done.in.eth)
         /\ SenderOf(done.in.eth) = myMAC) =>
        /\ Calls(done.log, "next.OnPacketIn") = {}
        /\ Cardinality(Calls(done.log, "UpdateHostLocation")) <= 1
        /\ Calls(done.log, "RemoveFlowByMAC") # {} =>
               \E i \in Calls(done.log, "UpdateHostLocation") :
                   /\ done.log[i].res.updated
                   /\ done.log[i].res.err = "nil"
                   /\ \A j \in Calls(done.log, "RemoveFlowByMAC") : i < j

C17_Witness ==
    /\ done.op = "OnPacketIn"
    /\ IsARPReplyFrame(done.in.eth)
    /\ SenderOf(done.in.eth) = myMAC
    /\ Len(done.in.devices) = 2
    /\ Len(done.log) = 1
    /\ done.log[1].fn = "UpdateHostLocation"
    /\ done.log[1].res = [updated |-> FALSE, err |-> "nil"]
    /\ done.ret = "nil"

\* C18: OnPortDown calls no ResetHostLocationsByDevice; what it resets, it
\* resets through ResetHostLocationsByPort with the number of the event
\* port's device id and the event port's number; and it leaves the
\* canceller table and the probing tasks as they were.
C18_PortDownResetsItsPort ==
    [][done'.op = "OnPortDown" =>
           /\ canceller' = canceller
           /\ tasks' = tasks
           /\ Calls(done'.log, "ResetHostLocationsByDevice") = {}
           /\ \A i \in Calls(done'.log, "ResetHostLocationsByPort") :
                  done'.log[i].args = <<StripZeros(done'.dev), done'.port>>]_vars

(***************************************************************************)
(* The table and the tasks when events are delivered one at a time.        *)
(***************************************************************************)
\* The device ids of the event whose handler takes the step.
Acting == {th[1].dev, th'[1].dev, done'.dev}

\* C20: between two events, every device id has one started and not
\* cancelled task, the one of its table entry, if the table has an entry
\* for it, and none otherwise; the table has an entry for it exactly when
\* its last device event was a DeviceUp; and no step of the handler of an
\* event changes the entry or the tasks of another device id.
C20_TableMatchesEvents ==
    /\ [](AllIdle =>
              \A d \in DeviceIDs :
                  /\ d \in DOMAIN canceller <=> d \in ups
                  /\ Cardinality(Live(d)) = IF d \in DOMAIN canceller THEN 1 ELSE 0
                  /\ d \in DOMAIN canceller => Live(d) = {canceller[d]})
    /\ [][\A d \in DeviceIDs \ Acting :
              /\ d \in DOMAIN canceller' <=> d \in DOMAIN canceller
              /\ d \in DOMAIN canceller => canceller'[d] = canceller[d]
              /\ Live(d)' = Live(d)]_vars

C20_Witness ==
    /\ AllIdle
    /\ done.op = "OnDeviceUp"
    /\ done.prev
    /\ DOMAIN canceller = DeviceIDs
    /\ \A d \in DeviceIDs : Live(d) = {canceller[d]}
    /\ Len(tasks) = 3

====
